---------------------------- MODULE Spec2Model ----------------------------
(***************************************************************************)
(* Acquisition-and-streaming pipeline of NexHacks_Embedded:                *)
(*   sensor_task (src/sensor.cpp)    producer, 100 Hz dual-sensor sampling *)
(*   ble_task    (src/BLE.cpp)       consumer of ble_queue                 *)
(*   NimBLE host callbacks (BLE.cpp) onConnect / onDisconnect / onWrite    *)
(*   mainfunc    (src/main.cpp)      start-up: validation, task creation   *)
(* The tasks run concurrently; every step below is one stretch of code     *)
(* between two points where another task can observe or change shared      *)
(* state (sensor_run_semaphore, ble_queue, session_start, the connected    *)
(* count).                                                                 *)
(***************************************************************************)
EXTENDS Integers, Sequences, FiniteSets, TLC

(* ---------------- program constants ---------------- *)
QUEUE_LEN == 10
BATCH == 3
PERIOD_US == 10000
STOP_WAIT_MS == 50
SEND_WAIT == 0

(* ---------------- exploration bounds ---------------- *)
\* ticks of the acquisition loop in a behaviour of Spec
MaxTicks == 6
\* host events (connect, disconnect, writes) plus failed ticks in a behaviour
MaxEvents == 4
\* ticks with a failed burst read in a behaviour
MaxFails == 1
\* ticks in a behaviour of the fill scenario (10 Packets queued, the 11th offered)
FillTicks == 34
\* microseconds between the last timer reading and a Start write's reading
StartLag == 400

VARIABLES
  sem,              \* uxSemaphoreGetCount(sensor_run_semaphore)
  spc,              \* sensor_task: next line to execute
  sample_index,
  sequence_counter,
  packet_buffer,
  raw_data,
  retA, retB,
  now_us,
  xLastWakeTime,
  session_start,
  clock,            \* esp_timer_get_time(), microseconds
  ble_queue,
  bpc,              \* ble_task: next line to execute
  received_packet,
  dataChar,
  connected,        \* NimBLEDevice::getServer()->getConnectedCount()
  hpc,              \* NimBLE host task: callback in progress
  acks,             \* number of ackChar->notify() calls
  mpc,              \* main task (mainfunc, initBLE): next line to execute
  led,              \* level of GPIO 17 (LED_RED)
  \* ---- history (not program state) ----
  budget,           \* exploration budget of this behaviour
  validation,       \* what the sensors answered to validate_sensors
  lastEvent,        \* the last host event: "connect", "disconnect" or the value written
  ticks,            \* per tick: [sess, ok, now, start, used]
  session,          \* number of Starts that set the gate (0 -> 1)
  epoch,            \* number of onConnect events
  events,           \* number of host events so far
  fails,            \* number of ticks with a failed burst read
  offered,          \* every xQueueSend: [pkt, sent, full, sess, epoch, afterStop]
  received,         \* number of packets ble_task took from ble_queue
  handed,           \* every setValue + notify: [pkt, peers, epoch, len]
  stopped           \* [on, ticks, pkts] since the last processed Stop/disconnect

vars == << sem, spc, sample_index, sequence_counter, packet_buffer, raw_data,
           retA, retB, now_us, xLastWakeTime, session_start, clock, ble_queue,
           bpc, received_packet, dataChar, connected, hpc, acks, mpc, led,
           budget, validation, lastEvent, ticks, session, epoch, events, fails, offered, received,
           handed, stopped >>

sensorVars == << spc, sample_index, sequence_counter, packet_buffer, raw_data,
                 retA, retB, now_us, xLastWakeTime >>
bleVars == << bpc, received_packet, dataChar >>
histVars == << budget, ticks, session, epoch, events, fails, offered,
               received, handed, stopped >>
bootVars == << mpc, validation >>
hostVars == << led, lastEvent >>

(* ---------------- data ---------------- *)
\* 14 bytes of a burst read, identified by the tick and device they came from
NoData == [tick |-> 0, dev |-> "none", ok |-> FALSE]
Fresh(t, d) == [tick |-> t, dev |-> d, ok |-> TRUE]
Garbage(t, d) == [tick |-> t, dev |-> d, ok |-> FALSE]

\* imu_sample_t
NoSample == [time_offset |-> 0, acc_A |-> NoData, gyro_A |-> NoData,
             acc_B |-> NoData, gyro_B |-> NoData]
\* ble_packet_t
NoPacket == [seq_id |-> 0, samples |-> << NoSample, NoSample, NoSample >>]

\* floor(2^64 / 1000) mod 2^16 and 2^64 mod 1000
U64_DIV1000_MOD16 == 42991
U64_MOD1000 == 616

\* (uint16_t)((now - start) / 1000) with uint64_t operands
TimeOffset(now, start) ==
  IF now >= start
    THEN ((now - start) \div 1000) % 65536
    ELSE LET d == start - now
             k == IF d <= U64_MOD1000 THEN 0
                  ELSE ((d - U64_MOD1000) + 999) \div 1000
         IN (U64_DIV1000_MOD16 - k) % 65536

\* mpu6050_read_burst into raw_data: on failure the buffer keeps what it held
\* or holds whatever part of the transfer arrived
ReadBurst(t, d, ok, keep, buf) ==
  IF ok THEN Fresh(t, d) ELSE IF keep THEN buf ELSE Garbage(t, d)

Max(a, b) == IF a >= b THEN a ELSE b

(* ---------------- payload layout (include/imu_packet.hpp) ---------------- *)
\* sizeof(uint16_t), sizeof(int16_t[3]), sizeof(uint32_t)
SIZE_U16 == 2
SIZE_VEC3 == 6
SIZE_U32 == 4

\* __attribute__((packed)) on imu_sample_t and ble_packet_t
\* (variant: the attribute left out)
PackedOff == FALSE
Packed == TRUE

\* the n bytes of one member, in memory order; k is the index in samples[]
FieldBytes(name, k, n) == [b \in 1..n |-> [field |-> name, sample |-> k, byte |-> b]]
PadBytes(n) == [b \in 1..n |-> [field |-> "pad", sample |-> 0, byte |-> b]]

AlignUp(n, a) == ((n + a - 1) \div a) * a

\* imu_sample_t: every member is 2-byte aligned, so the members are contiguous
\* with or without the attribute
SampleBytes(k) ==
  FieldBytes("time_offset", k, SIZE_U16) \o FieldBytes("acc_A", k, SIZE_VEC3)
    \o FieldBytes("gyro_A", k, SIZE_VEC3) \o FieldBytes("acc_B", k, SIZE_VEC3)
    \o FieldBytes("gyro_B", k, SIZE_VEC3)

\* alignment of ble_packet_t: 1 when packed, that of its uint32_t member otherwise
PacketAlign == IF Packed THEN 1 ELSE SIZE_U32

\* memory image of a ble_packet_t: seq_id, samples[0..2], tail padding up to
\* a multiple of the alignment
PacketImage ==
  LET members == FieldBytes("seq_id", 0, SIZE_U32) \o SampleBytes(1)
                   \o SampleBytes(2) \o SampleBytes(3)
  IN members \o PadBytes(AlignUp(Len(members), PacketAlign) - Len(members))

\* sizeof(ble_packet_t)
SizeOfPacket == Len(PacketImage)

\* the value held by byte m of the image of packet p
ByteOf(p, m) ==
  IF m.field = "seq_id" THEN [int |-> p.seq_id, byte |-> m.byte]
  ELSE IF m.field = "time_offset"
    THEN [int |-> p.samples[m.sample].time_offset, byte |-> m.byte]
  ELSE IF m.field = "acc_A" THEN [burst |-> p.samples[m.sample].acc_A, byte |-> m.byte]
  ELSE IF m.field = "gyro_A" THEN [burst |-> p.samples[m.sample].gyro_A, byte |-> m.byte + 8]
  ELSE IF m.field = "acc_B" THEN [burst |-> p.samples[m.sample].acc_B, byte |-> m.byte]
  ELSE IF m.field = "gyro_B" THEN [burst |-> p.samples[m.sample].gyro_B, byte |-> m.byte + 8]
  ELSE [pad |-> m.byte]

\* dataChar->setValue((uint8_t*)&received_packet, sizeof(ble_packet_t)):
\* the first sizeof(ble_packet_t) bytes at the packet's address
SetValue(p) ==
  [i \in 1..SizeOfPacket |->
     [member |-> PacketImage[i], value |-> ByteOf(p, PacketImage[i])]]

(* ---------------- start-up validation (src/main.cpp) ---------------- *)
\* what the two sensors answer to the wake-up writes and the burst reads
Answers ==
  [done : {TRUE}, wakeA : BOOLEAN, wakeB : BOOLEAN, readA : BOOLEAN,
   zerosA : BOOLEAN, readB : BOOLEAN, zerosB : BOOLEAN]
NoAnswers ==
  [done |-> FALSE, wakeA |-> TRUE, wakeB |-> TRUE, readA |-> TRUE,
   zerosA |-> FALSE, readB |-> TRUE, zerosB |-> FALSE]

\* validate_sensors
\* (variant: || in place of && in the return)
ValidateSensorsEither(v) ==
  IF ~v.wakeA THEN FALSE
  ELSE IF ~v.wakeB THEN FALSE
  ELSE LET sensor_a_ok == v.readA /\ ~v.zerosA
           sensor_b_ok == v.readB /\ ~v.zerosB
       IN sensor_a_ok \/ sensor_b_ok
ValidateSensors(v) ==
  IF ~v.wakeA THEN FALSE
  ELSE IF ~v.wakeB THEN FALSE
  ELSE LET sensor_a_ok == v.readA /\ ~v.zerosA
           sensor_b_ok == v.readB /\ ~v.zerosB
       IN sensor_a_ok /\ sensor_b_ok

(* ---------------- initial state ---------------- *)
InitState ==
  /\ sem = 0
  /\ spc = "none"
  /\ sample_index = 0
  /\ sequence_counter = 0
  /\ packet_buffer = NoPacket
  /\ raw_data = NoData
  /\ retA = TRUE
  /\ retB = TRUE
  /\ now_us = 0
  /\ xLastWakeTime = 0
  /\ session_start = 0
  /\ clock = 0
  /\ ble_queue = << >>
  /\ bpc = "none"
  /\ received_packet = NoPacket
  /\ dataChar = << >>
  /\ connected = 0
  /\ hpc = "idle"
  /\ acks = 0
  /\ mpc = "validate"
  /\ led = 0
  /\ validation = NoAnswers
  /\ lastEvent = "none"
  /\ ticks = << >>
  /\ session = 0
  /\ epoch = 0
  /\ events = 0
  /\ fails = 0
  /\ offered = << >>
  /\ received = 0
  /\ handed = << >>
  /\ stopped = [on |-> FALSE, ticks |-> 0, pkts |-> 0]

Init == InitState /\ budget = [ticks |-> MaxTicks, events |-> MaxEvents, fails |-> MaxFails]
InitFill == InitState /\ budget = [ticks |-> FillTicks, events |-> 3, fails |-> 0]

(* ---------------- main task: mainfunc, initBLE ---------------- *)
sharedVars == << sem, session_start, clock, ble_queue, connected, hpc, acks >>

\* main.cpp 99-102: if (!validate_sensors()) { ...; blink_red_forever(); }
MainValidate ==
  /\ mpc = "validate"
  /\ \E v \in Answers :
       /\ validation' = v
       /\ mpc' = IF ValidateSensors(v) THEN "create_sensor" ELSE "blink"
  /\ UNCHANGED << sharedVars, sensorVars, bleVars, histVars, hostVars >>

\* main.cpp 17-24: blink_red_forever, one half period
BlinkRedForever ==
  /\ mpc = "blink"
  /\ led' = 1 - led
  /\ UNCHANGED << sharedVars, sensorVars, bleVars, histVars, bootVars, lastEvent >>

\* main.cpp 108: xTaskCreate(sensor_task, "SensorTask", 4096, NULL, 10, NULL)
MainCreateSensorTask ==
  /\ mpc = "create_sensor"
  /\ mpc' = "create_queue"
  /\ spc' = "wake"
  /\ UNCHANGED << sample_index, sequence_counter, packet_buffer, raw_data, retA,
                  retB, now_us, xLastWakeTime, validation >>
  /\ UNCHANGED << sharedVars, bleVars, histVars, hostVars >>

\* a panic (assert or load fault in sensor_task) stops every task
Running == spc # "fault"

\* BLE.cpp 22: ble_queue = xQueueCreate(10, sizeof(ble_packet_t))
InitBLECreateQueue ==
  /\ mpc = "create_queue"
  /\ Running
  /\ mpc' = "create_sem"
  /\ ble_queue' = << >>
  /\ UNCHANGED << sem, session_start, clock, connected, hpc, acks, validation >>
  /\ UNCHANGED << sensorVars, bleVars, histVars, hostVars >>

\* BLE.cpp 23: sensor_run_semaphore = xSemaphoreCreateBinary(), created empty
InitBLECreateSemaphore ==
  /\ mpc = "create_sem"
  /\ Running
  /\ mpc' = "create_ble"
  /\ sem' = 0
  /\ UNCHANGED << session_start, clock, ble_queue, connected, hpc, acks, validation >>
  /\ UNCHANGED << sensorVars, bleVars, histVars, hostVars >>

\* BLE.cpp 25-64: server, service, characteristics, xTaskCreate(ble_task, ..., 5, ...)
InitBLECreateTask ==
  /\ mpc = "create_ble"
  /\ Running
  /\ mpc' = "advertise"
  /\ bpc' = "receive"
  /\ UNCHANGED << received_packet, dataChar, validation >>
  /\ UNCHANGED << sharedVars, sensorVars, histVars, hostVars >>

\* BLE.cpp 66-77: pService->start(); pAdvertising->start()
InitBLEAdvertise ==
  /\ mpc = "advertise"
  /\ Running
  /\ mpc' = "done"
  /\ UNCHANGED validation
  /\ UNCHANGED << sharedVars, sensorVars, bleVars, histVars, hostVars >>

\* the handles are null until initBLE assigns them
QueueCreated == mpc \in {"create_sem", "create_ble", "advertise", "done"}
SemCreated == mpc \in {"create_ble", "advertise", "done"}

(* ---------------- sensor_task ---------------- *)
\* lines 20-22: the two wake-up writes (results unused)
SensorWake ==
  /\ spc = "wake"
  /\ spc' = "take"
  /\ UNCHANGED << sample_index, sequence_counter, packet_buffer, raw_data, retA,
                  retB, now_us, xLastWakeTime >>
  /\ UNCHANGED << sharedVars, bleVars, histVars, bootVars, hostVars >>

\* line 36 reached while sensor_run_semaphore is still null: xSemaphoreTake
\* asserts on (or dereferences) the null handle and the firmware panics
SensorTakeNull ==
  /\ spc = "take"
  /\ ~SemCreated
  /\ spc' = "fault"
  /\ UNCHANGED << sample_index, sequence_counter, packet_buffer, raw_data, retA,
                  retB, now_us, xLastWakeTime >>
  /\ UNCHANGED << sharedVars, bleVars, histVars, bootVars, hostVars >>

\* line 36: xSemaphoreTake(sensor_run_semaphore, portMAX_DELAY)
SensorTake ==
  /\ spc = "take"
  /\ SemCreated
  /\ sem = 1
  /\ sem' = 0
  /\ spc' = "give"
  /\ UNCHANGED << sample_index, sequence_counter, packet_buffer, raw_data, retA,
                  retB, now_us, xLastWakeTime, session_start, clock, ble_queue,
                  connected, hpc, acks >>
  /\ UNCHANGED bleVars
  /\ UNCHANGED histVars
  /\ UNCHANGED bootVars
  /\ UNCHANGED hostVars

\* lines 39-42: xSemaphoreGive; xLastWakeTime = xTaskGetTickCount()
SensorGive ==
  /\ spc = "give"
  /\ sem' = 1
  /\ xLastWakeTime' = clock
  /\ spc' = "check"
  /\ UNCHANGED << sample_index, sequence_counter, packet_buffer, raw_data, retA,
                  retB, now_us, session_start, clock, ble_queue, connected, hpc,
                  acks >>
  /\ UNCHANGED bleVars
  /\ UNCHANGED histVars
  /\ UNCHANGED bootVars
  /\ UNCHANGED hostVars

\* line 45: while (uxSemaphoreGetCount(...) > 0); on exit lines 32-33 of the
\* next outer iteration
SensorCheck ==
  /\ spc = "check"
  /\ IF sem > 0
       THEN /\ spc' = "delay"
            /\ UNCHANGED << sample_index, sequence_counter >>
       ELSE /\ spc' = "take"
            /\ sample_index' = 0
            /\ sequence_counter' = 0
  /\ UNCHANGED << sem, packet_buffer, raw_data, retA, retB, now_us,
                  xLastWakeTime, session_start, clock, ble_queue, connected,
                  hpc, acks >>
  /\ UNCHANGED bleVars
  /\ UNCHANGED histVars
  /\ UNCHANGED bootVars
  /\ UNCHANGED hostVars

\* lines 46-48: vTaskDelayUntil(&xLastWakeTime, xFrequency); now_us = esp_timer_get_time()
SensorDelay ==
  /\ spc = "delay"
  /\ Len(ticks) < budget.ticks
  /\ xLastWakeTime' = xLastWakeTime + PERIOD_US
  /\ clock' = Max(clock, xLastWakeTime + PERIOD_US)
  /\ now_us' = clock'
  /\ spc' = "sample"
  /\ ticks' = Append(ticks, [sess |-> session, ok |-> FALSE, now |-> clock',
                            start |-> session_start, used |-> -1])
  /\ stopped' = IF stopped.on THEN [stopped EXCEPT !.ticks = @ + 1] ELSE stopped
  /\ UNCHANGED << sem, sample_index, sequence_counter, packet_buffer, raw_data,
                  retA, retB, session_start, ble_queue, connected, hpc, acks >>
  /\ UNCHANGED bleVars
  /\ UNCHANGED << budget, session, epoch, events, fails, offered, received, handed >>
  /\ UNCHANGED bootVars
  /\ UNCHANGED hostVars

\* line 78: xQueueSend(ble_queue, &packet_buffer, 0)
\* (variant: a full queue gives up its oldest Packet)
QueueSendOverwrite(q, p) == IF Len(q) < QUEUE_LEN THEN Append(q, p) ELSE Append(Tail(q), p)
QueueSend(q, p) == IF Len(q) < QUEUE_LEN THEN Append(q, p) ELSE q

\* line 78, third argument: xQueueSend returns at once when the queue has room
\* or the wait is 0, and blocks while the queue is full otherwise
\* (variant: portMAX_DELAY in place of 0)
QueueSendBlocks(q) == Len(q) < QUEUE_LEN
QueueSendReturns(q) == Len(q) < QUEUE_LEN \/ SEND_WAIT = 0

\* line 66: if (retA == ESP_OK && retB == ESP_OK)
\* (variant: || in place of &&)
BothOkEither(a, b) == a \/ b
BothOk(a, b) == a /\ b

\* lines 51-84: both burst reads, the four memcpy into samples[sample_index],
\* then time_offset, the batch index and the enqueue of a full batch
SensorSample ==
  /\ spc = "sample"
  /\ \E okA, okB, keep \in BOOLEAN :
       LET t == Len(ticks)
           bufA == ReadBurst(t, "A", okA, keep, raw_data)
           bufB == ReadBurst(t, "B", okB, keep, bufA)
           i == sample_index + 1
           copied == [packet_buffer EXCEPT
                        !.samples[i].acc_A = bufA,
                        !.samples[i].gyro_A = bufA,
                        !.samples[i].acc_B = bufB,
                        !.samples[i].gyro_B = bufB]
           filled == [copied EXCEPT
                        !.samples[i].time_offset = TimeOffset(now_us, session_start)]
           pkt == [filled EXCEPT !.seq_id = sequence_counter]
       IN /\ (okA /\ okB) => ~keep
          /\ ~(okA /\ okB) => (fails < budget.fails /\ events + fails < budget.events)
          /\ retA' = okA
          /\ retB' = okB
          /\ raw_data' = bufB
          /\ fails' = IF okA /\ okB THEN fails ELSE fails + 1
          /\ ticks' = [ticks EXCEPT ![t].ok = okA /\ okB,
                                 ![t].used = IF BothOk(okA, okB)
                                               THEN session_start ELSE -1]
          /\ IF BothOk(okA, okB)
               THEN IF sample_index + 1 >= BATCH
                      THEN /\ QueueSendReturns(ble_queue)
                           /\ packet_buffer' = pkt
                           /\ sequence_counter' = sequence_counter + 1
                           /\ ble_queue' = QueueSend(ble_queue, pkt)
                           /\ sample_index' = 0
                           /\ offered' = Append(offered,
                                 [pkt |-> pkt, sent |-> ble_queue' # ble_queue,
                                  full |-> Len(ble_queue) >= QUEUE_LEN,
                                  sess |-> session, epoch |-> epoch,
                                  afterStop |-> stopped.on])
                           /\ stopped' = IF stopped.on
                                           THEN [stopped EXCEPT !.pkts = @ + 1]
                                           ELSE stopped
                      ELSE /\ packet_buffer' = filled
                           /\ sample_index' = sample_index + 1
                           /\ UNCHANGED << sequence_counter, ble_queue, offered, stopped >>
               ELSE /\ packet_buffer' = copied
                    /\ UNCHANGED << sample_index, sequence_counter, ble_queue,
                                    offered, stopped >>
  /\ spc' = "check"
  /\ UNCHANGED << sem, now_us, xLastWakeTime, session_start, clock, connected,
                  hpc, acks >>
  /\ UNCHANGED bleVars
  /\ UNCHANGED << budget, session, epoch, events, received, handed >>
  /\ UNCHANGED bootVars
  /\ UNCHANGED hostVars

(* ---------------- ble_task ---------------- *)
\* xQueueReceive on a non-empty queue: the item copied out and the queue left
\* (variant: the newest item in place of the oldest)
QueueReceiveNewest(q) == [item |-> q[Len(q)], rest |-> SubSeq(q, 1, Len(q) - 1)]
QueueReceive(q) == [item |-> Head(q), rest |-> Tail(q)]

\* line 117: xQueueReceive(ble_queue, &received_packet, portMAX_DELAY)
BleReceive ==
  /\ bpc = "receive"
  /\ ble_queue # << >>
  /\ received_packet' = QueueReceive(ble_queue).item
  /\ ble_queue' = QueueReceive(ble_queue).rest
  /\ bpc' = "connected"
  /\ UNCHANGED << sem, session_start, clock, connected, hpc, acks, dataChar >>
  /\ UNCHANGED sensorVars
  /\ received' = received + 1
  /\ UNCHANGED << budget, ticks, session, epoch, events, fails, offered, handed,
                  stopped >>
  /\ UNCHANGED bootVars
  /\ UNCHANGED hostVars

\* line 118: if (getConnectedCount() > 0) ... and the loop back to line 117
\* (variant: the task waits for a peer before it takes the next packet)
AfterCheckWait(c) == IF c > 0 THEN "notify" ELSE "connected"
AfterCheck(c) == IF c > 0 THEN "notify" ELSE "receive"

\* line 118
BleCheckConnected ==
  /\ bpc = "connected"
  /\ bpc' = AfterCheck(connected)
  /\ UNCHANGED << sem, session_start, clock, ble_queue, connected, hpc, acks,
                  received_packet, dataChar >>
  /\ UNCHANGED sensorVars
  /\ UNCHANGED histVars
  /\ UNCHANGED bootVars
  /\ UNCHANGED hostVars

\* lines 121-129: dataChar->setValue((uint8_t*)&received_packet, sizeof(ble_packet_t));
\* dataChar->notify()
BleNotify ==
  /\ bpc = "notify"
  /\ dataChar' = SetValue(received_packet)
  /\ bpc' = "receive"
  /\ handed' = Append(handed, [pkt |-> received_packet, peers |-> connected,
                               epoch |-> epoch, len |-> Len(dataChar')])
  /\ UNCHANGED << sem, session_start, clock, ble_queue, connected, hpc, acks,
                  received_packet >>
  /\ UNCHANGED sensorVars
  /\ UNCHANGED << budget, ticks, session, epoch, events, fails, offered, received,
                  stopped >>
  /\ UNCHANGED bootVars
  /\ UNCHANGED hostVars

(* ---------------- NimBLE host callbacks ---------------- *)
\* the host task delivers events once initBLE has started advertising
HostIdle == mpc = "done" /\ hpc = "idle" /\ events + fails < budget.events

\* values a peer writes to statusChar
WriteValues == {"Start", "Stop", "stop"}

\* onWrite, lines 99 and 105: val == "Start", val == "Stop"
\* (variant: the comparison ignores case)
CommandAnyCase(val) ==
  IF val \in {"Start", "start"} THEN "start"
  ELSE IF val \in {"Stop", "stop"} THEN "stop" ELSE "none"
Command(val) ==
  IF val = "Start" THEN "start" ELSE IF val = "Stop" THEN "stop" ELSE "none"

\* MyServerCallbacks::onConnect
OnConnect ==
  /\ HostIdle
  /\ connected = 0
  /\ connected' = 1
  /\ epoch' = epoch + 1
  /\ events' = events + 1
  /\ UNCHANGED << sem, session_start, clock, ble_queue, hpc, acks >>
  /\ UNCHANGED sensorVars
  /\ UNCHANGED bleVars
  /\ UNCHANGED << budget, ticks, session, fails, offered, received, handed, stopped >>
  /\ led' = 1
  /\ lastEvent' = "connect"
  /\ UNCHANGED bootVars

\* xSemaphoreTake(sensor_run_semaphore, pdMS_TO_TICKS(50)) when the count is 1
GateTaken == [on |-> TRUE, ticks |-> 0, pkts |-> 0]

\* MyServerCallbacks::onDisconnect, line 87
OnDisconnect ==
  /\ HostIdle
  /\ connected = 1
  /\ connected' = 0
  /\ events' = events + 1
  /\ IF sem = 1
       THEN sem' = 0 /\ hpc' = "idle" /\ stopped' = GateTaken /\ led' = 0
       ELSE sem' = sem /\ hpc' = "wait" /\ stopped' = stopped /\ led' = led
  /\ UNCHANGED << session_start, clock, ble_queue, acks >>
  /\ UNCHANGED sensorVars
  /\ UNCHANGED bleVars
  /\ UNCHANGED << budget, ticks, session, epoch, fails, offered, received, handed >>
  /\ lastEvent' = "disconnect"
  /\ UNCHANGED bootVars

\* MyCharCallbacks::onWrite, val == "Start", lines 100-102
OnWriteStart ==
  /\ HostIdle
  /\ connected = 1
  /\ \E val \in WriteValues : Command(val) = "start" /\ lastEvent' = val
  /\ clock' = clock + StartLag
  /\ session_start' = clock'
  /\ acks' = acks + 1
  /\ hpc' = "give"
  /\ events' = events + 1
  /\ UNCHANGED << sem, ble_queue, connected >>
  /\ UNCHANGED sensorVars
  /\ UNCHANGED bleVars
  /\ UNCHANGED << budget, ticks, session, epoch, fails, offered, received, handed, stopped >>
  /\ UNCHANGED led
  /\ UNCHANGED bootVars

\* MyCharCallbacks::onWrite, val == "Start", line 103: xSemaphoreGive
StartGive ==
  /\ hpc = "give"
  /\ sem' = 1
  /\ hpc' = "idle"
  /\ session' = IF sem = 0 THEN session + 1 ELSE session
  /\ stopped' = [on |-> FALSE, ticks |-> 0, pkts |-> 0]
  /\ UNCHANGED << session_start, clock, ble_queue, connected, acks >>
  /\ UNCHANGED sensorVars
  /\ UNCHANGED bleVars
  /\ UNCHANGED << budget, ticks, epoch, events, fails, offered, received, handed >>
  /\ UNCHANGED bootVars
  /\ UNCHANGED hostVars

\* MyCharCallbacks::onWrite, val == "Stop", line 107
OnWriteStop ==
  /\ HostIdle
  /\ connected = 1
  /\ \E val \in WriteValues : Command(val) = "stop" /\ lastEvent' = val
  /\ events' = events + 1
  /\ IF sem = 1
       THEN sem' = 0 /\ hpc' = "idle" /\ stopped' = GateTaken
       ELSE sem' = sem /\ hpc' = "wait" /\ stopped' = stopped
  /\ UNCHANGED << session_start, clock, ble_queue, connected, acks >>
  /\ UNCHANGED sensorVars
  /\ UNCHANGED bleVars
  /\ UNCHANGED << budget, ticks, session, epoch, fails, offered, received, handed >>
  /\ UNCHANGED led
  /\ UNCHANGED bootVars

\* MyCharCallbacks::onWrite, any other value (or another characteristic)
OnWriteOther ==
  /\ HostIdle
  /\ connected = 1
  /\ \E val \in WriteValues : Command(val) = "none" /\ lastEvent' = val
  /\ events' = events + 1
  /\ UNCHANGED << sem, session_start, clock, ble_queue, connected, hpc, acks >>
  /\ UNCHANGED sensorVars
  /\ UNCHANGED bleVars
  /\ UNCHANGED << budget, ticks, session, epoch, fails, offered, received, handed, stopped >>
  /\ UNCHANGED led
  /\ UNCHANGED bootVars

\* the blocked xSemaphoreTake of Stop/disconnect gets the semaphore within 50 ms
WaitTake ==
  /\ hpc = "wait"
  /\ sem = 1
  /\ sem' = 0
  /\ hpc' = "idle"
  /\ stopped' = GateTaken
  /\ UNCHANGED << session_start, clock, ble_queue, connected, acks >>
  /\ UNCHANGED sensorVars
  /\ UNCHANGED bleVars
  /\ UNCHANGED << budget, ticks, session, epoch, events, fails, offered, received, handed >>
  /\ led' = IF connected = 0 THEN 0 ELSE led
  /\ UNCHANGED lastEvent
  /\ UNCHANGED bootVars

\* ... or times out: nothing gave it for 50 ms. sensor_task between its take
\* (line 36) and its give (line 39) is runnable and gives within that time.
WaitTimeout ==
  /\ hpc = "wait"
  /\ sem = 0
  /\ spc # "give"
  /\ hpc' = "idle"
  /\ clock' = clock + STOP_WAIT_MS * 1000
  /\ UNCHANGED << sem, session_start, ble_queue, connected, acks >>
  /\ UNCHANGED sensorVars
  /\ UNCHANGED bleVars
  /\ UNCHANGED histVars
  /\ led' = IF connected = 0 THEN 0 ELSE led
  /\ UNCHANGED lastEvent
  /\ UNCHANGED bootVars

(* ---------------- specification ---------------- *)
Next ==
  \/ MainValidate \/ BlinkRedForever \/ MainCreateSensorTask
  \/ InitBLECreateQueue \/ InitBLECreateSemaphore \/ InitBLECreateTask
  \/ InitBLEAdvertise
  \/ SensorWake \/ SensorTakeNull
  \/ SensorTake \/ SensorGive \/ SensorCheck \/ SensorDelay \/ SensorSample
  \/ BleReceive \/ BleCheckConnected \/ BleNotify
  \/ OnConnect \/ OnDisconnect \/ OnWriteStart \/ StartGive \/ OnWriteStop
  \/ OnWriteOther \/ WaitTake \/ WaitTimeout

Spec == Init /\ [][Next]_vars

\* The fill scenario: a long run (FillTicks ticks, no read failure) with at most
\* three host events, long enough for ble_queue to fill and overflow.
SpecFill == InitFill /\ [][Next]_vars

\* sensor_task (priority 10) runs whenever it is runnable; nothing is assumed
\* of ble_task or of the peer.
SensorStep ==
  \/ SensorWake \/ SensorTakeNull
  \/ SensorTake \/ SensorGive \/ SensorCheck \/ SensorDelay \/ SensorSample

\* The fill scenario with ble_task never scheduled (blocked below line 117, or
\* starved): the consumer never dequeues.
NextStall ==
  \/ MainValidate \/ BlinkRedForever \/ MainCreateSensorTask
  \/ InitBLECreateQueue \/ InitBLECreateSemaphore \/ InitBLECreateTask
  \/ InitBLEAdvertise
  \/ SensorWake \/ SensorTakeNull
  \/ SensorTake \/ SensorGive \/ SensorCheck \/ SensorDelay \/ SensorSample
  \/ OnConnect \/ OnDisconnect \/ OnWriteStart \/ StartGive \/ OnWriteStop
  \/ OnWriteOther \/ WaitTake \/ WaitTimeout
FairStall == InitFill /\ [][NextStall]_vars /\ WF_vars(SensorStep)

(* ---------------- helpers for the properties ---------------- *)
\* the tick in which a sample's sensor A bytes were read
TickOf(s) == s.acc_A.tick
\* a sample wholly read in tick t with both reads successful
WholeSample(s, t) ==
  /\ s.acc_A = Fresh(t, "A") /\ s.gyro_A = Fresh(t, "A")
  /\ s.acc_B = Fresh(t, "B") /\ s.gyro_B = Fresh(t, "B")
Offers == 1..Len(offered)
Handed == 1..Len(handed)
SentPkts == LET sentOffers == SelectSeq(offered, LAMBDA o : o.sent)
            IN [i \in 1..Len(sentOffers) |-> sentOffers[i].pkt]
OfferOf(p) == CHOOSE j \in Offers : offered[j].pkt = p
InQueue(p) == \E i \in 1..Len(ble_queue) : ble_queue[i] = p
(* ---------------- C1 ---------------- *)
\* C1: the first Packet enqueued after each accepted Start (a Start that set
\* the gate) carries sequence_id 0.
C1_FirstPacketAfterStartIsZero ==
  \A i \in Offers :
    ( /\ offered[i].sent
      /\ \A j \in 1..(i - 1) : ~(offered[j].sent /\ offered[j].sess = offered[i].sess) )
    => offered[i].pkt.seq_id = 0

(* ---------------- C2 ---------------- *)
\* C2: within one session (accepted Start to the next Stop/disconnect) the
\* k-th completed batch is given sequence_id k-1, enqueued or dropped.
C2_SeqIdCountsBatchesOfSession ==
  \A i \in Offers :
    offered[i].pkt.seq_id =
      Cardinality({j \in 1..(i - 1) : offered[j].sess = offered[i].sess})

(* ---------------- C3 ---------------- *)
\* C3: every Packet offered to ble_queue holds 3 samples, each read wholly in
\* one tick whose two burst reads both succeeded; the three ticks are distinct,
\* in capture order, and every tick skipped between them had a failed read.
C3_PacketIsThreeDualReadTicks ==
  \A i \in Offers :
    LET smp == offered[i].pkt.samples
    IN /\ Len(smp) = BATCH
       /\ \A k \in 1..BATCH :
            /\ TickOf(smp[k]) \in 1..Len(ticks)
            /\ WholeSample(smp[k], TickOf(smp[k]))
            /\ ticks[TickOf(smp[k])].ok
       /\ TickOf(smp[1]) < TickOf(smp[2])
       /\ TickOf(smp[2]) < TickOf(smp[3])
       /\ \A t \in TickOf(smp[1])..TickOf(smp[3]) :
            (\A k \in 1..BATCH : t # TickOf(smp[k])) => ~ticks[t].ok

\* a Packet was offered whose three ticks skip a failed tick
C3_Witness ==
  \E i \in Offers :
    TickOf(offered[i].pkt.samples[3]) - TickOf(offered[i].pkt.samples[1]) > 2

(* ---------------- C4 ---------------- *)
\* C4: a batch left partial by a Stop/disconnect is discarded, so no enqueued
\* Packet mixes samples captured in two sessions.
C4_NoPacketMixesSessions ==
  \A i \in Offers :
    \A k \in 1..BATCH :
      ticks[TickOf(offered[i].pkt.samples[k])].sess =
        ticks[TickOf(offered[i].pkt.samples[BATCH])].sess

(* ---------------- C5 ---------------- *)
\* C5: ble_queue never holds more than 10 Packets; a Packet completed while it
\* holds 10 is the one dropped: the queue stays exactly the Packets accepted
\* and not yet received, in order, and a dropped Packet is nowhere later.
C5_FullQueueDropsNewest ==
  /\ Len(ble_queue) <= QUEUE_LEN
  /\ received <= Len(SentPkts)
  /\ ble_queue = SubSeq(SentPkts, received + 1, Len(SentPkts))
  /\ \A i \in Offers :
       /\ offered[i].sent <=> ~offered[i].full
       /\ ~offered[i].sent =>
            /\ ~InQueue(offered[i].pkt)
            /\ \A h \in Handed : handed[h].pkt # offered[i].pkt
            /\ bpc # "receive" => received_packet # offered[i].pkt

\* a batch was completed and dropped while the queue held 10 Packets
C5_Witness ==
  /\ Len(ble_queue) = QUEUE_LEN
  /\ \E i \in Offers : offered[i].full /\ ~offered[i].sent

(* ---------------- C6 ---------------- *)
\* C6: the producer never stalls on the consumer: while the gate stays set,
\* sensor_task goes on to complete the next batch (enqueued or dropped) although
\* ble_task never dequeues and the queue stays full. (A run ends at FillTicks.)
C6_ProducerNeverStalls ==
  \A n \in 0..(FillTicks \div BATCH) :
    (Len(offered) = n /\ sem = 1 /\ spc \in {"check", "delay", "sample"})
      ~> (Len(offered) > n \/ sem = 0 \/ Len(ticks) >= budget.ticks)

\* the queue is full, ble_task has never dequeued, and sensor_task completed a
\* further batch
C6_Witness ==
  /\ received = 0
  /\ Len(ble_queue) = QUEUE_LEN
  /\ Len(offered) > QUEUE_LEN
  /\ spc = "check"

(* ---------------- C7 ---------------- *)
\* C7: no Packet is handed to the data endpoint (setValue/notify) while zero
\* peers are connected.
C7_NoHandOverWithoutPeer ==
  \A h \in Handed : handed[h].peers > 0

(* ---------------- C8 ---------------- *)
\* C8: no backlog replay: a Packet handed to the data endpoint was enqueued
\* while the peer connected at that moment was already connected.
C8_NoBacklogReplay ==
  \A h \in Handed :
    \A i \in Offers :
      offered[i].pkt = handed[h].pkt => offered[i].epoch = handed[h].epoch

(* ---------------- C9 ---------------- *)
\* C9: Packets are handed to the radio layer in the order sensor_task enqueued
\* them, each at most once, so the sequence_ids delivered within a session
\* are strictly increasing.
C9_DeliveredInEnqueueOrder ==
  /\ \A h \in Handed :
       \E i \in Offers : offered[i].sent /\ offered[i].pkt = handed[h].pkt
  /\ \A g, h \in Handed :
       g < h =>
         /\ OfferOf(handed[g].pkt) < OfferOf(handed[h].pkt)
         /\ offered[OfferOf(handed[g].pkt)].sess = offered[OfferOf(handed[h].pkt)].sess
              => handed[g].pkt.seq_id < handed[h].pkt.seq_id

\* three Packets were delivered, in order, while later ones wait in the queue
C9_Witness ==
  /\ Len(handed) >= 3
  /\ handed[3].pkt.seq_id = 2
  /\ Len(ble_queue) >= 2

(* ---------------- C10 ---------------- *)
\* C10: once a Stop or disconnect has taken the gate, the acquisition loop
\* begins at most one further tick and offers at most that tick's Packet until
\* a new Start is processed.
C10_StopsWithinOneTick ==
  stopped.on => (stopped.ticks <= 1 /\ stopped.pkts <= 1)

(* ---------------- C11 ---------------- *)
\* C11: "ACK" is notified exactly once per accepted Start (a Start that takes
\* the gate from Stopped to Running) and on no other event: between callbacks
\* the number of ACK notifications equals the number of those transitions.
C11_AcksEqualAcceptedStarts ==
  hpc # "give" => acks = session

(* ---------------- C12 ---------------- *)
\* C12: a write to the control endpoint whose value is neither "Start" nor
\* "Stop" changes nothing: the gate, session_start, ble_queue, the batch index,
\* the sequence counter, the batch under construction and the ACK count are
\* what they were before the write.
C12_UnknownWriteChangesNothing ==
  [][(events' = events + 1
        /\ lastEvent' \notin {"connect", "disconnect", "Start", "Stop"})
       => UNCHANGED << sem, session_start, ble_queue, sample_index,
                       sequence_counter, packet_buffer, acks, hpc >>]_vars

\* an unrecognised value was written in the middle of a batch of a running session
C12_Witness ==
  lastEvent = "stop" /\ sem = 1 /\ sample_index > 0 /\ acks = 1

(* ---------------- C13 ---------------- *)
\* C13: when start-up validation fails (a wake-up write fails, a burst read
\* fails, or a sensor returns 14 zero bytes) neither sensor_task nor ble_task is
\* ever created, the main task stays in the blink loop and no Packet is ever
\* produced.
C13_FailedValidationStartsNothing ==
  (validation.done
     /\ (~validation.wakeA \/ ~validation.wakeB \/ ~validation.readA
           \/ ~validation.readB \/ validation.zerosA \/ validation.zerosB))
    => /\ mpc = "blink"
       /\ spc = "none"
       /\ bpc = "none"
       /\ ticks = << >>
       /\ offered = << >>
       /\ handed = << >>

\* only sensor B is at fault (it answers with zero bytes) and the LED is lit
C13_Witness ==
  /\ mpc = "blink" /\ led = 1
  /\ validation.wakeA /\ validation.wakeB /\ validation.readA /\ validation.readB
  /\ ~validation.zerosA /\ validation.zerosB

C15_SensorTaskOnlyObservesGate ==
  /\ [][spc' # spc => sem' = sem]_vars
  /\ []((lastEvent = "Start" /\ hpc = "idle") => sem = 1)

(* ---------------- C16 ---------------- *)
\* C16: the time_offset of every sample of an enqueued Packet is
\* floor((capture time - session start) / 1000) mod 2^16, the session start
\* being the timestamp written by the most recent Start before the sample's
\* capture.
C16_TimeOffsetFromLatestStart ==
  \A j \in Offers :
    offered[j].sent =>
      \A k \in 1..BATCH :
        LET smp == offered[j].pkt.samples[k]
            t == TickOf(smp)
        IN smp.time_offset = ((ticks[t].now - ticks[t].start) \div 1000) % 65536

(* ---------------- C17 ---------------- *)
\* ble_task (priority 5) runs whenever it is runnable
BleStep == BleReceive \/ BleCheckConnected \/ BleNotify
\* a run with at most three host events and no read failure
InitBle == InitState /\ budget = [ticks |-> MaxTicks, events |-> 3, fails |-> 0]
FairBle == InitBle /\ [][Next]_vars /\ WF_vars(BleStep)

\* C17: with ble_task scheduled fairly, every Packet that enters ble_queue is
\* eventually taken out of it, exactly once and never put back: it is either
\* handed to the radio or discarded.
C17_QueuedPacketsLeaveOnce ==
  /\ \A n \in 1..(MaxTicks \div BATCH) : (Len(SentPkts) >= n) ~> (received >= n)
  /\ [](received + Len(ble_queue) = Len(SentPkts))
  /\ [](Len(handed) <= received)

\* a Packet was taken from the queue with no peer connected and discarded
C17_Witness ==
  /\ Len(SentPkts) >= 1
  /\ received = Len(SentPkts)
  /\ bpc = "receive"
  /\ handed = << >>

(* ---------------- C18 ---------------- *)
\* C18: the gate is binary and the commands are idempotent: the count is 0 or
\* 1, a Start whose handler has returned leaves the gate set, and a Stop or
\* disconnect whose handler has returned leaves it cleared, whatever number of
\* Starts came before.
C18_GateBinaryAndIdempotent ==
  /\ sem \in {0, 1}
  /\ (lastEvent \in {"Stop", "disconnect"} /\ hpc = "idle") => sem = 0

(* ---------------- C19 ---------------- *)
\* C19: sensor_task's first xSemaphoreTake and its enqueues happen after
\* initBLE has created the semaphore and the queue, in every interleaving of
\* start-up.
C19_HandlesCreatedBeforeUse ==
  /\ spc # "fault"
  /\ spc \in {"give", "check", "delay", "sample"} => SemCreated
  /\ offered # << >> => QueueCreated

(* ---------------- C20 ---------------- *)
\* C20: whenever sensor_task computes a time_offset, now_us is not earlier
\* than the session_start it reads, and the three time_offsets of a Packet are
\* non-decreasing.
C20_NoUnderflow ==
  /\ \A t \in 1..Len(ticks) : ticks[t].used # -1 => ticks[t].now >= ticks[t].used
  /\ \A j \in Offers : \A k \in 1..(BATCH - 1) :
       offered[j].pkt.samples[k].time_offset
         <= offered[j].pkt.samples[k + 1].time_offset

=============================================================================
